---- MODULE Spec2Model ----
(***************************************************************************)
(* Model of cyrus-lvm-backup.py: one invocation of main() after another    *)
(* against a host whose logical volumes, mount table, mount-point          *)
(* directory and cyrus-imapd unit persist between invocations.             *)
(*                                                                         *)
(* Every external call (subprocess, D-Bus method, HTTP post, syslog) is    *)
(* appended to `calls` with the phase of main() that issued it, so that    *)
(* ordering properties are state predicates over the log.                  *)
(***************************************************************************)
EXTENDS Integers, Sequences, FiniteSets, TLC

\* ---------------------------------------------------------------- bounds
MaxRuns == 2        \* invocations of main() in one behaviour
MaxMounts == 2      \* file systems stacked on the mount point

\* ------------------------------------------------- command-line arguments
lv_name == "lv"
vg_name == "vg"
YamlPath == "/etc/pushover.yaml"
PushoverYamlArgs == {"None", "", YamlPath}

\* ------------------------------------------------ names derived by main()
mount_point == "/mnt/" \o lv_name \o "_bkup"
backup_vol == lv_name \o "_bkup"
lv_full_name == vg_name \o "/" \o lv_name
bkup_lv_full_name == vg_name \o "/" \o backup_vol

\* ----------------------------------------------------------- the host
OtherVolume == "vg/root"
VolumeOrder == <<lv_full_name, bkup_lv_full_name, OtherVolume>>
AllVolumes == {VolumeOrder[i] : i \in 1..Len(VolumeOrder)}

Running == <<"active", "running">>
Exited == <<"active", "exited">>
Starting == <<"activating", "start">>
Stopping == <<"deactivating", "stop-sigterm">>
Dead == <<"inactive", "dead">>
Failed == <<"failed", "failed">>

\* states the unit can be observed in 5 seconds after Stop()
StopOutcomes == {Dead, Stopping, Failed}
\* states the unit can be in after Start() when it was not running
StartOutcomes == {Running, Exited, Starting, Failed}

\* ------------------------------------------------------ text operations
Contains(text, pat) ==
    \E i \in 1..(Len(text) - Len(pat) + 1) : SubSeq(text, i, i + Len(pat) - 1) = pat

IsSpace(c) == c \in {" ", "\n"}

RECURSIVE Strip(_)
Strip(s) ==
    IF Len(s) = 0 THEN s
    ELSE IF IsSpace(SubSeq(s, 1, 1)) THEN Strip(SubSeq(s, 2, Len(s)))
    ELSE IF IsSpace(SubSeq(s, Len(s), Len(s))) THEN Strip(SubSeq(s, 1, Len(s) - 1))
    ELSE s

RECURSIVE LvsLines(_, _)
LvsLines(vols, i) ==
    IF i > Len(VolumeOrder) THEN ""
    ELSE (IF VolumeOrder[i] \in vols THEN "  " \o VolumeOrder[i] \o "\n" ELSE "")
         \o LvsLines(vols, i + 1)

\* stdout of `lvs --options lv_full_name --noheadings`, stripped
LvsOutput(vols) == Strip(LvsLines(vols, 1))

RECURSIVE MountLines(_)
MountLines(n) ==
    IF n = 0 THEN ""
    ELSE "/dev/mapper/" \o vg_name \o "-" \o backup_vol \o " on " \o mount_point
         \o " type ext4 (ro)\n" \o MountLines(n - 1)

\* stdout of `mount`
MountOutput(n) == "/dev/sda1 on / type ext4 (rw)\n" \o MountLines(n)

\* `pushover_data` before the credentials file has been parsed
NoData == {"<unbound>"}

\* ------------------------------------------------------------ exceptions
None == [type |-> "None", msg |-> ""]
LocalError(m) == [type |-> "LocalError", msg |-> m]
CalledProcessError(cmd) == [type |-> "CalledProcessError", msg |-> cmd]
KeyError(k) == [type |-> "KeyError", msg |-> k]
DBusError(m) == [type |-> "DBusError", msg |-> m]

Repr(e) == e.type \o "('" \o e.msg \o "')"

\* --------------------------------------------------------------- state
VARIABLES
    volumes,            \* logical volumes known to LVM
    dirExists,          \* the mount-point directory exists
    mounts,             \* file systems mounted on the mount point
    svc,                \* <<ActiveState, SubState>> of cyrus-imapd.service
    pc,                 \* position in main() / validate()
    run,                \* invocations so far
    force,              \* --force
    pushover_yaml,      \* --pushover-yaml ("None" when not given)
    testIdx,            \* loop index over `tests` in validate()
    pushover_data,      \* keys of the parsed credentials file
    cyrus,              \* main()'s `cyrus` is a Unit (not None)
    PUSHOVER_TOKEN,
    PUSHOVER_USER_KEY,
    exc,                \* exception in flight ("None" type when none)
    caught,             \* exceptions bound by `except Exception as exc`
    calls,              \* external calls of this invocation, in order
    pre,                \* the host as the invocation found it
    prev                \* the main-sequence step the previous invocation failed in

vars == <<volumes, dirExists, mounts, svc, pc, run, force, pushover_yaml, testIdx,
          pushover_data, cyrus, PUSHOVER_TOKEN, PUSHOVER_USER_KEY, exc, caught,
          calls, pre, prev>>

host == <<volumes, dirExists, mounts, svc>>
args == <<run, force, pushover_yaml, pre, prev>>
creds == <<pushover_data, PUSHOVER_TOKEN, PUSHOVER_USER_KEY>>

Phase(p) ==
    IF p \in {"lvs1", "tests", "exists", "mounted", "v_umount", "mounted2", "mkdir",
              "lvs2", "v_lvremove", "yaml"} THEN "validate"
    ELSE IF p = "except" THEN "except"
    ELSE IF p = "finally" THEN "finally"
    ELSE "main"

Call(op, rc, arg) ==
    [op |-> op, phase |-> Phase(pc), rc |-> rc, arg |-> arg, mode |-> "-", token |-> "-"]

Log(c) == calls' = Append(calls, c)

Raise(e) == /\ exc' = e
            /\ pc' = "except"

Goto(p) == /\ pc' = p
           /\ UNCHANGED exc

\* the main-sequence call whose result made main() raise (lines 46, 79 and
\* check_proc, lines 99-104), "-" when there is none
FailedStep ==
    LET F == {i \in DOMAIN calls :
                /\ calls[i].phase = "main"
                /\ \/ calls[i].op \notin {"Stop", "health", "postqueue -f"}
                      /\ calls[i].rc \notin {0, 200}
                   \/ calls[i].op = "Stop" /\ calls[i].arg # "dead"
                   \/ calls[i].op = "health" /\ calls[i].arg # "active/running"}
    IN IF F = {} THEN "-" ELSE calls[CHOOSE i \in F : TRUE].op

Init ==
    /\ volumes \in SUBSET AllVolumes
    /\ dirExists \in BOOLEAN
    /\ mounts \in 0..MaxMounts
    /\ mounts > 0 => dirExists
    /\ svc \in {Running, Dead, Failed}
    /\ pc = "idle"
    /\ run = 0
    /\ force = FALSE
    /\ pushover_yaml = "None"
    /\ testIdx = 0
    /\ pushover_data = NoData
    /\ cyrus = FALSE
    /\ PUSHOVER_TOKEN = "None"
    /\ PUSHOVER_USER_KEY = "None"
    /\ exc = None
    /\ caught = <<>>
    /\ calls = <<>>
    /\ pre = [volumes |-> volumes, dirExists |-> dirExists, mounts |-> mounts]
    /\ prev = "-"

\* A new process: module globals are None again, main() starts (lines 21-39).
Invoke ==
    /\ pc \in {"idle", "done"}
    /\ run < MaxRuns
    /\ run' = run + 1
    /\ force' \in BOOLEAN
    /\ pushover_yaml' \in PushoverYamlArgs
    /\ testIdx' = 0
    /\ pushover_data' = NoData
    /\ cyrus' = FALSE
    /\ PUSHOVER_TOKEN' = "None"
    /\ PUSHOVER_USER_KEY' = "None"
    /\ exc' = None
    /\ caught' = <<>>
    /\ calls' = <<>>
    /\ pre' = [volumes |-> volumes, dirExists |-> dirExists, mounts |-> mounts]
    /\ prev' = FailedStep
    /\ pc' = "lvs1"
    /\ UNCHANGED host

\* ------------------------------------------------------------ validate()
tests == << [cmd |-> "rsync --version", output |-> "protocol version"],
            [cmd |-> "lvcreate --version", output |-> "LVM version"],
            [cmd |-> "lvremove --version", output |-> "LVM version"],
            [cmd |-> "mount --version", output |-> "mount from util-linux"],
            [cmd |-> "umount --version", output |-> "umount from util-linux"],
            [cmd |-> "postqueue -p", output |-> ""] >>

\* what each tool can print: its usual banner, or nothing
ToolStdout(i) ==
    { <<"rsync  version 3.2.7  protocol version 31",
        "  LVM version:     2.03.11(2)",
        "  LVM version:     2.03.11(2)",
        "mount from util-linux 2.36.1",
        "umount from util-linux 2.36.1",
        "Mail queue is empty">>[i], "" }

\* line 156
MountPointExists == LocalError("mount point " \o mount_point \o " exists")

\* line 172
BackupPresent == LocalError("Backup LV present (" \o bkup_lv_full_name \o ")")

\* line 178
YamlMissing == LocalError("Pushover YAML file " \o YamlPath \o " does not exist")

\* line 183
StructureError == LocalError("Structure of YAML pushover file incorrect")

\* line 127: `lv_name not in out` is False
SourceVolumeListed(out) == Contains(out, lv_full_name)

\* the listing searched for the mount point instead of the snapshot volume
BackupVolumeListedWrongName(out) == Contains(out, mount_point)

\* line 167: `bkup_lv_name in out`
BackupVolumeListed(out) == Contains(out, bkup_lv_full_name)

\* the mount table searched for a path below the mount point
IsMountedWrongPath(mounted) == Contains(mounted, "on " \o mount_point \o "/")

\* lines 145, 153: f'on {mount_point} ' in mounted
IsMounted(mounted) == Contains(mounted, "on " \o mount_point \o " ")

\* lines 125-128
V_lvs1 ==
    /\ pc = "lvs1"
    /\ \E rc \in {0, 1} :
        /\ Log(Call("lvs", rc, IF rc = 0 THEN LvsOutput(volumes) ELSE ""))
        /\ IF rc # 0 THEN Raise(CalledProcessError("lvs"))
           ELSE IF ~SourceVolumeListed(LvsOutput(volumes))
                THEN Raise(LocalError("LVM volume " \o lv_full_name \o " not found"))
           ELSE Goto("tests")
    /\ testIdx' = 1
    /\ UNCHANGED <<host, args, creds, cyrus, caught>>

\* lines 137-140, one iteration
V_tests ==
    /\ pc = "tests"
    /\ \E rc \in {0, 1}, out \in ToolStdout(testIdx) :
        /\ Log(Call(tests[testIdx].cmd, rc, out))
        /\ IF rc # 0
           THEN Raise(CalledProcessError(tests[testIdx].cmd)) /\ UNCHANGED testIdx
           ELSE IF ~Contains(out, tests[testIdx].output)
                THEN /\ Raise(LocalError("Output from " \o tests[testIdx].cmd
                                         \o " did not match expected"))
                     /\ UNCHANGED testIdx
           ELSE IF testIdx < Len(tests)
                THEN Goto("tests") /\ testIdx' = testIdx + 1
           ELSE Goto("exists") /\ UNCHANGED testIdx
    /\ UNCHANGED <<host, args, creds, cyrus, caught>>

\* lines 142-143, 155-157
V_exists ==
    /\ pc = "exists"
    /\ IF dirExists
       THEN IF force THEN Goto("mounted")
            ELSE Raise(MountPointExists)
       ELSE Goto("mkdir")
    /\ UNCHANGED <<host, args, creds, cyrus, caught, calls, testIdx>>

\* lines 144-145
V_mounted ==
    /\ pc = "mounted"
    /\ \E rc \in {0, 1} :
        /\ Log(Call("mount", rc, ""))
        /\ IF rc # 0 THEN Raise(CalledProcessError("mount"))
           ELSE IF IsMounted(MountOutput(mounts)) THEN Goto("v_umount")
           ELSE Goto("lvs2")
    /\ UNCHANGED <<host, args, creds, cyrus, caught, testIdx>>

\* lines 146-151
V_umount ==
    /\ pc = "v_umount"
    /\ \E rc \in {0, 1}, stderr \in {"", "target is busy"} :
        /\ rc = 0 => mounts > 0 /\ stderr = ""
        /\ Log(Call("umount", rc, stderr))
        /\ IF rc # 0
           THEN /\ Raise(LocalError(IF stderr # "" THEN "umount error: " \o Strip(stderr)
                                    ELSE "umount exited 1"))
                /\ UNCHANGED mounts
           ELSE Goto("mounted2") /\ mounts' = mounts - 1
    /\ UNCHANGED <<volumes, dirExists, svc, args, creds, cyrus, caught, testIdx>>

\* the mount table not read again after umount
V_mounted2NoRecheck ==
    /\ pc = "mounted2"
    /\ Goto("lvs2")
    /\ UNCHANGED <<host, args, creds, cyrus, caught, calls, testIdx>>

\* lines 152-154
V_mounted2 ==
    /\ pc = "mounted2"
    /\ \E rc \in {0, 1} :
        /\ Log(Call("mount", rc, ""))
        /\ IF rc # 0 THEN Raise(CalledProcessError("mount"))
           ELSE IF IsMounted(MountOutput(mounts))
                THEN Raise(LocalError("Unable to unmount " \o mount_point))
           ELSE Goto("lvs2")
    /\ UNCHANGED <<host, args, creds, cyrus, caught, testIdx>>

\* lines 158-163
V_mkdir ==
    /\ pc = "mkdir"
    /\ \E rc \in {0, 1}, stdout \in {"", "Permission denied"} :
        /\ rc = 0 => ~dirExists /\ stdout = ""
        /\ Log(Call("mkdir", rc, stdout))
        /\ IF rc # 0
           THEN /\ Raise(LocalError(IF stdout # "" THEN "mkdir failed: " \o Strip(stdout)
                                    ELSE "mkdir failed (exited 1)"))
                /\ UNCHANGED dirExists
           ELSE Goto("lvs2") /\ dirExists' = TRUE
    /\ UNCHANGED <<volumes, mounts, svc, args, creds, cyrus, caught, testIdx>>

\* a listed snapshot removed whether or not --force was given
V_lvs2AlwaysRemoves ==
    /\ pc = "lvs2"
    /\ \E rc \in {0, 1} :
        /\ Log(Call("lvs", rc, IF rc = 0 THEN LvsOutput(volumes) ELSE ""))
        /\ IF rc # 0 THEN Raise(CalledProcessError("lvs"))
           ELSE IF BackupVolumeListed(LvsOutput(volumes)) THEN Goto("v_lvremove")
           ELSE Goto("yaml")
    /\ UNCHANGED <<host, args, creds, cyrus, caught, testIdx>>

\* a listed snapshot left in place under --force
V_lvs2NoRemoval ==
    /\ pc = "lvs2"
    /\ \E rc \in {0, 1} :
        /\ Log(Call("lvs", rc, IF rc = 0 THEN LvsOutput(volumes) ELSE ""))
        /\ IF rc # 0 THEN Raise(CalledProcessError("lvs"))
           ELSE IF BackupVolumeListed(LvsOutput(volumes)) /\ ~force
                THEN Raise(BackupPresent)
           ELSE Goto("yaml")
    /\ UNCHANGED <<host, args, creds, cyrus, caught, testIdx>>

\* lines 165-168, 171-172
V_lvs2 ==
    /\ pc = "lvs2"
    /\ \E rc \in {0, 1} :
        /\ Log(Call("lvs", rc, IF rc = 0 THEN LvsOutput(volumes) ELSE ""))
        /\ IF rc # 0 THEN Raise(CalledProcessError("lvs"))
           ELSE IF BackupVolumeListed(LvsOutput(volumes))
                THEN IF force THEN Goto("v_lvremove")
                     ELSE Raise(BackupPresent)
           ELSE Goto("yaml")
    /\ UNCHANGED <<host, args, creds, cyrus, caught, testIdx>>

\* lines 169-170 (check_proc: lines 99-104)
V_lvremove ==
    /\ pc = "v_lvremove"
    /\ \E rc \in {0, 5} :
        /\ rc = 0 => bkup_lv_full_name \in volumes /\ mounts = 0
        /\ Log(Call("lvremove", rc, ""))
        /\ IF rc # 0
           THEN /\ Raise(LocalError("Failed to remove logical volume {bkup_lv_name}: None"))
                /\ UNCHANGED volumes
           ELSE Goto("yaml") /\ volumes' = volumes \ {bkup_lv_full_name}
    /\ UNCHANGED <<dirExists, mounts, svc, args, creds, cyrus, caught, testIdx>>

\* contents a credentials file can parse to: a mapping with any of the keys
YamlShapes == {d \in SUBSET {"user_key", "MailBackup", "token"} :
                  "token" \in d => "MailBackup" \in d}

\* lines 180-182
StructureIncorrect(d) == ~("user_key" \in d) /\ "MailBackup" \in d /\ "token" \in d

\* lines 175-187
V_yaml ==
    /\ pc = "yaml"
    /\ IF pushover_yaml \in {"None", ""}
       THEN Goto("unit") /\ UNCHANGED creds
       ELSE \E exists \in BOOLEAN, d \in YamlShapes :
            IF ~exists
            THEN /\ d = {}
                 /\ Raise(YamlMissing)
                 /\ UNCHANGED creds
            ELSE /\ pushover_data' = d
                 /\ IF StructureIncorrect(d)
                    THEN /\ Raise(StructureError)
                         /\ UNCHANGED <<PUSHOVER_USER_KEY, PUSHOVER_TOKEN>>
                    ELSE IF "user_key" \notin d
                    THEN /\ Raise(KeyError("user_key"))
                         /\ UNCHANGED <<PUSHOVER_USER_KEY, PUSHOVER_TOKEN>>
                    ELSE /\ PUSHOVER_USER_KEY' = "u-key"
                         /\ IF "MailBackup" \notin d
                            THEN Raise(KeyError("MailBackup")) /\ UNCHANGED PUSHOVER_TOKEN
                            ELSE IF "token" \notin d
                            THEN Raise(KeyError("token")) /\ UNCHANGED PUSHOVER_TOKEN
                            ELSE Goto("unit") /\ PUSHOVER_TOKEN' = "a-token"
    /\ UNCHANGED <<host, args, cyrus, caught, calls, testIdx>>

\* ---------------------------------------------------------------- notify()
HttpStatus == {200, 500}

\* the response status never looked at
PushRejectedNever(status) == FALSE

\* line 113
PushRejected(status) == status # 200

\* lines 85, 87, 90: the `pushover` argument, `pushover_yaml is not None`
PushMode == pushover_yaml # "None"

\* lines 109-112 (requests.post) and 116-117 (syslog)
NotifyCall(site, pushover, msg, status) ==
    IF pushover
    THEN [op |-> site, phase |-> Phase(pc), rc |-> status, arg |-> msg,
          mode |-> "push", token |-> PUSHOVER_TOKEN]
    ELSE [op |-> site, phase |-> Phase(pc), rc |-> 0, arg |-> "msg",
          mode |-> "log", token |-> "-"]

NotifyError == LocalError("Unable to send pushover notification: HTTP {resp.status_code}")

FlushMsg(stdout) == "Failed to flush postfix queue: " \o stdout
SuccessMsg == "Successfully backed up cyrus volume"

\* ------------------------------------------------------------------ main()
\* Unit.Start(): a no-op when the unit is running already
StartResult(s) == IF s = Running THEN {Running} ELSE StartOutcomes

\* a unit that is still starting may have settled by the time it is queried
Settle(s) == IF s = Starting THEN {Starting, Running, Failed} ELSE {s}

\* line 47 (the message is not an f-string)
StopFailed ==
    LocalError("Failed to stop cyrus-imapd. systemd unit is in state {cyrus.SubState}")

\* the sub-state never looked at
StopVerifiedAlways(sub) == TRUE

\* line 46
StopVerified(sub) == sub = "dead"

\* the health check never failing
HealthyAlways(s) == TRUE

\* line 79
Healthy(s) == s[1] = "active" /\ s[2] = "running"

\* the cleanup guard never taken
CleanupStartsNever(c) == FALSE

\* line 96: `if cyrus:`
CleanupStarts(c) == c

\* lines 42-43
M_unit ==
    /\ pc = "unit"
    /\ \E outcome \in {"ok", "Unit", "load"} :
        /\ cyrus' = (outcome # "Unit")
        /\ IF outcome = "ok" THEN Goto("stop") ELSE Raise(DBusError(outcome))
    /\ UNCHANGED <<host, args, creds, caught, calls, testIdx>>

\* lines 44-47
M_stop ==
    /\ pc = "stop"
    /\ \E s \in StopOutcomes :
        /\ svc' = s
        /\ Log(Call("Stop", 0, s[2]))
        /\ IF StopVerified(s[2]) THEN Goto("lvcreate")
           ELSE Raise(StopFailed)
    /\ UNCHANGED <<volumes, dirExists, mounts, args, creds, cyrus, caught, testIdx>>

\* lines 50-52
M_lvcreate ==
    /\ pc = "lvcreate"
    /\ \E rc \in {0, 5} :
        /\ rc = 0 => lv_full_name \in volumes /\ bkup_lv_full_name \notin volumes
        /\ Log(Call("lvcreate", rc, ""))
        /\ IF rc # 0
           THEN Raise(LocalError("Failed to create snapshot: error")) /\ UNCHANGED volumes
           ELSE Goto("start") /\ volumes' = volumes \cup {bkup_lv_full_name}
    /\ UNCHANGED <<dirExists, mounts, svc, args, creds, cyrus, caught, testIdx>>

\* the restart after the snapshot left out
M_startOmitted ==
    /\ pc = "start"
    /\ Goto("mount")
    /\ UNCHANGED <<host, args, creds, cyrus, caught, calls, testIdx>>

\* line 55
M_start ==
    /\ pc = "start"
    /\ svc' \in StartResult(svc)
    /\ Log(Call("Start", 0, ""))
    /\ Goto("mount")
    /\ UNCHANGED <<volumes, dirExists, mounts, args, creds, cyrus, caught, testIdx>>

\* lines 58-60
M_mount ==
    /\ pc = "mount"
    /\ \E rc \in {0, 32} :
        /\ rc = 0 => bkup_lv_full_name \in volumes /\ dirExists
        /\ Log(Call("mount -o ro", rc, ""))
        /\ IF rc # 0
           THEN Raise(LocalError("Failed to mount snapshot: error")) /\ UNCHANGED mounts
           ELSE Goto("rsync") /\ mounts' = mounts + 1
    /\ UNCHANGED <<volumes, dirExists, svc, args, creds, cyrus, caught, testIdx>>

\* the result of rsync not passed to check_proc
M_rsyncUnchecked ==
    /\ pc = "rsync"
    /\ \E rc \in {0, 23} : Log(Call("rsync", rc, ""))
    /\ Goto("umount")
    /\ UNCHANGED <<host, args, creds, cyrus, caught, testIdx>>

\* lines 63-67
M_rsync ==
    /\ pc = "rsync"
    /\ \E rc \in {0, 23} :
        /\ Log(Call("rsync", rc, ""))
        /\ IF rc # 0 THEN Raise(LocalError("Failed to rsync to backup host: error"))
           ELSE Goto("umount")
    /\ UNCHANGED <<host, args, creds, cyrus, caught, testIdx>>

\* lines 70-71
M_umount ==
    /\ pc = "umount"
    /\ \E rc \in {0, 32} :
        /\ rc = 0 => mounts > 0
        /\ Log(Call("umount", rc, ""))
        /\ IF rc # 0
           THEN /\ Raise(LocalError("Failed to unmount " \o mount_point \o ": error"))
                /\ UNCHANGED mounts
           ELSE Goto("lvremove") /\ mounts' = mounts - 1
    /\ UNCHANGED <<volumes, dirExists, svc, args, creds, cyrus, caught, testIdx>>

\* lines 72-74
M_lvremove ==
    /\ pc = "lvremove"
    /\ \E rc \in {0, 5} :
        /\ rc = 0 => bkup_lv_full_name \in volumes /\ mounts = 0
        /\ Log(Call("lvremove", rc, ""))
        /\ IF rc # 0
           THEN /\ Raise(LocalError("Failed to remove logical volume {vg_name}/{backup_vol}: error"))
                /\ UNCHANGED volumes
           ELSE Goto("rmdir") /\ volumes' = volumes \ {bkup_lv_full_name}
    /\ UNCHANGED <<dirExists, mounts, svc, args, creds, cyrus, caught, testIdx>>

\* lines 75-76
M_rmdir ==
    /\ pc = "rmdir"
    /\ \E rc \in {0, 1} :
        /\ rc = 0 => dirExists /\ mounts = 0
        /\ Log(Call("rmdir", rc, ""))
        /\ IF rc # 0
           THEN /\ Raise(LocalError("Failed to remove mountpoint directory "
                                    \o mount_point \o ": error"))
                /\ UNCHANGED dirExists
           ELSE Goto("health") /\ dirExists' = FALSE
    /\ UNCHANGED <<volumes, mounts, svc, args, creds, cyrus, caught, testIdx>>

\* lines 79-81
M_health ==
    /\ pc = "health"
    /\ \E s \in Settle(svc) :
        /\ svc' = s
        /\ Log(Call("health", 0, s[1] \o "/" \o s[2]))
        /\ IF Healthy(s) THEN Goto("postqueue")
           ELSE Raise(LocalError("cyrus-imapd may be down after backup: ActiveState "
                                 \o s[1] \o " SubState" \o s[2]))
    /\ UNCHANGED <<volumes, dirExists, mounts, args, creds, cyrus, caught, testIdx>>

\* lines 83-84
M_postqueue ==
    /\ pc = "postqueue"
    /\ \E rc \in {0, 1} :
        /\ Log(Call("postqueue -f", rc, IF rc = 0 THEN "" ELSE "mail system is down"))
        /\ IF rc # 0 THEN Goto("notify_flush") ELSE Goto("notify_ok")
    /\ UNCHANGED <<host, args, creds, cyrus, caught, testIdx>>

\* line 85
M_notify_flush ==
    /\ pc = "notify_flush"
    /\ \E status \in HttpStatus :
        /\ Log(NotifyCall("notify:flush", PushMode, FlushMsg(calls[Len(calls)].arg), status))
        /\ IF PushMode /\ PushRejected(status) THEN Raise(NotifyError)
           ELSE Goto("notify_ok")
    /\ UNCHANGED <<host, args, creds, cyrus, caught, testIdx>>

\* line 87
M_notify_ok ==
    /\ pc = "notify_ok"
    /\ \E status \in HttpStatus :
        /\ Log(NotifyCall("notify:success", PushMode, SuccessMsg, status))
        /\ IF PushMode /\ PushRejected(status) THEN Raise(NotifyError)
           ELSE Goto("finally")
    /\ UNCHANGED <<host, args, creds, cyrus, caught, testIdx>>

\* a notification error in the handler ending the process at once
ExceptSkipsCleanup ==
    /\ pc = "except"
    /\ caught' = Append(caught, exc)
    /\ \E status \in HttpStatus :
        /\ Log(NotifyCall("notify:failure", PushMode, Repr(exc), status))
        /\ exc' = IF PushMode /\ PushRejected(status) THEN NotifyError ELSE exc
        /\ pc' = IF PushMode /\ PushRejected(status) THEN "done" ELSE "finally"
    /\ UNCHANGED <<host, args, creds, cyrus, testIdx>>

\* lines 89-91
Except ==
    /\ pc = "except"
    /\ caught' = Append(caught, exc)
    /\ \E status \in HttpStatus :
        /\ Log(NotifyCall("notify:failure", PushMode, Repr(exc), status))
        /\ exc' = IF PushMode /\ PushRejected(status) THEN NotifyError ELSE exc
    /\ pc' = "finally"
    /\ UNCHANGED <<host, args, creds, cyrus, testIdx>>

\* lines 93-97, then the process exits with `exc`
Finally ==
    /\ pc = "finally"
    /\ IF CleanupStarts(cyrus)
       THEN svc' \in StartResult(svc) /\ Log(Call("Start", 0, ""))
       ELSE UNCHANGED <<svc, calls>>
    /\ pc' = "done"
    /\ UNCHANGED <<volumes, dirExists, mounts, args, creds, cyrus, exc, caught, testIdx>>

Next ==
    \/ Invoke
    \/ V_lvs1 \/ V_tests \/ V_exists \/ V_mounted \/ V_umount \/ V_mounted2 \/ V_mkdir
    \/ V_lvs2 \/ V_lvremove \/ V_yaml
    \/ M_unit \/ M_stop \/ M_lvcreate \/ M_start \/ M_mount \/ M_rsync \/ M_umount
    \/ M_lvremove \/ M_rmdir \/ M_health \/ M_postqueue \/ M_notify_flush \/ M_notify_ok
    \/ Except \/ Finally

Spec == Init /\ [][Next]_vars

\* ------------------------------------------------- observations of a run
Issued(op) == \E i \in DOMAIN calls : calls[i].op = op
IssuedIn(op, phase) == \E i \in DOMAIN calls : calls[i].op = op /\ calls[i].phase = phase
MainCalls == SelectSeq(calls, LAMBDA c : c.phase = "main")
MainOps == [i \in DOMAIN MainCalls |-> MainCalls[i].op]
IsPrefix(s, t) == Len(s) <= Len(t) /\ s = SubSeq(t, 1, Len(s))
FlushFailed == \E i \in DOMAIN calls : calls[i].op = "postqueue -f" /\ calls[i].rc # 0
ServiceCommanded == Issued("Stop") \/ Issued("Start")
Ended == pc = "done"
RunFailed == Ended /\ exc # None

\* every external call so far reported success, and the unit was seen in
\* the state main() waits for
AllSucceeded ==
    \A i \in DOMAIN calls :
        /\ calls[i].rc \in {0, 200}
        /\ calls[i].op = "Stop" => calls[i].arg = "dead"
        /\ calls[i].op = "health" => calls[i].arg = "active/running"

ExpectedMainOps == <<"Stop", "lvcreate", "Start", "mount -o ro", "rsync", "umount",
                     "lvremove", "rmdir", "health", "postqueue -f", "notify:success">>

C2_StartOnEveryFailure == RunFailed => Issued("Start")

\* C2 amended: a failing run issues a start command before it ends exactly
\* when main() had bound the service handle (line 42); a run that fails in
\* validation, or while constructing the handle, sends the mail service no
\* command at all.
C2_StartOnceHandleBound ==
    /\ (RunFailed /\ cyrus) => calls[Len(calls)].op = "Start"
    /\ (RunFailed /\ ~cyrus) => ~ServiceCommanded

C2_Witness ==
    /\ RunFailed /\ cyrus
    /\ IssuedIn("lvcreate", "main") /\ ~IssuedIn("Start", "main")
    /\ IssuedIn("Start", "finally")

\* C3: when the source volume vg/lv is not among the logical volumes the
\* run finds (whatever else is listed, whatever the force flag), validation
\* fails and none of stop, lvcreate, mount or rsync is issued.
C3_NoActionWithoutSource ==
    lv_full_name \notin pre.volumes =>
        /\ ~IssuedIn("Stop", "main") /\ ~IssuedIn("lvcreate", "main")
        /\ ~IssuedIn("mount -o ro", "main") /\ ~IssuedIn("rsync", "main")
        /\ pc \notin {"unit", "stop"}

Raised == pc = "except" \/ caught # <<>>
FirstError == IF caught # <<>> THEN caught[1] ELSE exc
Aborting == pc \in {"except", "finally", "done"} /\ Raised
InMain == pc \in {"unit", "stop", "lvcreate", "start", "mount", "rsync", "umount", "lvremove",
                  "rmdir", "health", "postqueue", "notify_flush", "notify_ok"}
Leftover == pre.dirExists \/ bkup_lv_full_name \in pre.volumes
TestsPassed == \E i \in DOMAIN calls : calls[i].op = "postqueue -p" /\ calls[i].rc = 0
ListedTwice ==
    \E i, j \in DOMAIN calls :
        i < j /\ calls[i].op = "lvs" /\ calls[j].op = "lvs" /\ calls[j].rc = 0

\* C4: without --force, a run that finds the mount point /mnt/lv_bkup or
\* the snapshot volume vg/lv_bkup already there never reaches the main
\* sequence and never sends the mail service a command; it ends in failure,
\* and the error raised is the conflict error of the leftover it meets first
\* (mount point exists, once the tool checks have passed; backup LV present,
\* once the directory was created and the volumes were listed again).
C4_NoForceConflict ==
    (run > 0 /\ ~force /\ Leftover) =>
        /\ ~ServiceCommanded /\ MainCalls = <<>> /\ ~InMain
        /\ Ended => exc # None
        /\ (pre.dirExists /\ TestsPassed /\ Raised) => FirstError = MountPointExists
        /\ (~pre.dirExists /\ ListedTwice /\ Raised) => FirstError = BackupPresent

C4_Witness ==
    /\ Ended /\ ~force /\ ~pre.dirExists /\ bkup_lv_full_name \in pre.volumes
    /\ caught = <<BackupPresent>>
    /\ ~ServiceCommanded

ValidateIndex(op) ==
    {i \in DOMAIN calls : calls[i].op = op /\ calls[i].phase = "validate" /\ calls[i].rc = 0}

\* C5: with --force, a run that finds the mount point mounted and/or the
\* snapshot volume present never raises a conflict error for them; when it
\* reaches the main sequence the mount point is unmounted and the snapshot
\* volume is gone, validate() having issued a successful umount for the
\* mounted mount point and a successful lvremove for the snapshot, the umount
\* first.
C5_ForceClears ==
    (run > 0 /\ force /\ (pre.mounts > 0 \/ bkup_lv_full_name \in pre.volumes)) =>
        /\ Raised => FirstError \notin {MountPointExists, BackupPresent}
        /\ pc \in {"unit", "stop"} => mounts = 0 /\ bkup_lv_full_name \notin volumes
        /\ (InMain \/ MainCalls # <<>>) =>
            /\ pre.mounts > 0 => ValidateIndex("umount") # {}
            /\ bkup_lv_full_name \in pre.volumes => ValidateIndex("lvremove") # {}
            /\ \A i \in ValidateIndex("umount"), j \in ValidateIndex("lvremove") : i < j

C5_Witness ==
    /\ force /\ pre.mounts > 0 /\ bkup_lv_full_name \in pre.volumes
    /\ pc = "lvcreate" /\ Issued("Stop")
    /\ ValidateIndex("umount") # {} /\ ValidateIndex("lvremove") # {}

\* C6: a run given a credentials path whose file is missing, or parses
\* without the user key, the nested section or the nested token, aborts with
\* the malformed-credentials configuration error before any command is sent
\* to the mail service.
C6_MalformedCredentials ==
    /\ (Raised /\ FirstError = YamlMissing) => ~ServiceCommanded
    /\ (pushover_data # NoData /\ pushover_data # {"user_key", "MailBackup", "token"}) =>
        /\ Aborting /\ ~ServiceCommanded
        /\ FirstError = StructureError

\* C7: once the unit has been seen in a sub-state other than dead after
\* the stop command, the run is aborting with the stop error and lvcreate has
\* not been, and will not be, issued.
C7_NoSnapshotUnlessDead ==
    (\E i \in DOMAIN calls : calls[i].op = "Stop" /\ calls[i].arg # "dead") =>
        /\ ~Issued("lvcreate")
        /\ Aborting /\ FirstError = StopFailed
        /\ Ended => exc # None

C7_Witness ==
    /\ Ended /\ exc = StopFailed
    /\ \E i \in DOMAIN calls : calls[i].op = "Stop" /\ calls[i].arg = "stop-sigterm"
    /\ ~Issued("lvcreate")

Count(op) == Cardinality({i \in DOMAIN calls : calls[i].op = op})
FlushStdout == LET i == CHOOSE k \in DOMAIN calls : calls[k].op = "postqueue -f"
               IN calls[i].arg

\* C8: a run in which postqueue -f exited non-zero ends as an overall
\* success, in either notifier mode and whatever the notifier returned: a
\* notification carrying the flush failure was sent, the success notification
\* was sent after it, no error is propagated and no failure notification was
\* sent.
C8_FlushFailureNonFatal ==
    (Ended /\ FlushFailed) =>
        /\ \E i, j \in DOMAIN calls :
              /\ i < j
              /\ calls[i].op = "notify:flush" /\ calls[i].arg = FlushMsg(FlushStdout)
              /\ calls[j].op = "notify:success"
        /\ exc = None /\ caught = <<>>
        /\ ~Issued("notify:failure")

\* C9: an error raised in validation or in the main sequence is caught by
\* the top-level handler once, one failure notification is attempted for it,
\* and the process then exits with that same error, also when the
\* notification attempt failed.
C9_HandledOnce ==
    /\ Len(caught) <= 1
    /\ pc # "except" => Count("notify:failure") = Len(caught)
    /\ (Ended /\ caught # <<>>) => exc = caught[1]
    /\ (Ended /\ exc # None) => caught # <<>>

HealthSeenAfterRemoval(i) ==
    \E l, r, h \in DOMAIN calls :
        /\ l < r /\ r < h /\ h < i
        /\ calls[l].op = "lvremove" /\ calls[l].phase = "main" /\ calls[l].rc = 0
        /\ calls[r].op = "rmdir" /\ calls[r].rc = 0
        /\ calls[h].op = "health" /\ calls[h].arg = "active/running"

LastIndex(op, phase) ==
    LET S == {i \in DOMAIN calls : calls[i].op = op /\ calls[i].phase = phase}
    IN IF S = {} THEN 0 ELSE CHOOSE i \in S : \A j \in S : j <= i

\* C11: lvcreate is issued only while the snapshot volume vg/lv_bkup does
\* not exist, in every run of a sequence of runs: from the end of validation
\* up to the lvcreate call the volume is absent, and validate() had either
\* read a listing without it or, under --force, removed it with a successful
\* lvremove.
C11_SnapshotAbsentBeforeCreate ==
    (pc \in {"unit", "stop", "lvcreate"} \/ Issued("lvcreate")) =>
        /\ pc \in {"unit", "stop", "lvcreate"} => bkup_lv_full_name \notin volumes
        /\ LastIndex("lvs", "validate") > 0
        /\ \/ /\ calls[LastIndex("lvs", "validate")].rc = 0
              /\ ~Contains(calls[LastIndex("lvs", "validate")].arg, bkup_lv_full_name)
           \/ /\ force
              /\ \E i \in ValidateIndex("lvremove") : i > LastIndex("lvs", "validate")
        /\ Count("lvcreate") <= 1

C11_Witness ==
    /\ run = 2 /\ prev = "rsync" /\ force
    /\ bkup_lv_full_name \in pre.volumes
    /\ pc = "start" /\ Count("lvcreate") = 1
    /\ bkup_lv_full_name \in volumes

\* C12: when main() is about to mount the snapshot, the mount-point
\* directory exists and nothing is mounted on it: validate() either created
\* the directory with mkdir, or (under --force) read the mount table and found
\* the mount point free, after a successful umount when it had been mounted;
\* and a run without --force that found the directory there never gets to the
\* mount.
C12_MountPointFree ==
    /\ pc = "mount" =>
        /\ dirExists /\ mounts = 0
        /\ \/ ~pre.dirExists /\ ValidateIndex("mkdir") # {}
           \/ /\ force /\ pre.dirExists
              /\ LastIndex("mount", "validate") > 0
              /\ calls[LastIndex("mount", "validate")].rc = 0
              /\ pre.mounts > 0 =>
                    \E u \in ValidateIndex("umount") : u < LastIndex("mount", "validate")
    /\ (run > 0 /\ ~force /\ pre.dirExists) =>
        pc # "mount" /\ ~IssuedIn("mount -o ro", "main")

C12_Witness ==
    /\ pc = "mount" /\ force /\ pre.mounts > 0
    /\ dirExists /\ mounts = 0
    /\ ValidateIndex("umount") # {}

NotifySites == {"notify:flush", "notify:success", "notify:failure"}
RejectedAt(site) ==
    \E i \in DOMAIN calls :
        calls[i].op = site /\ calls[i].mode = "push" /\ calls[i].rc # 200
RejectedInTry == RejectedAt("notify:flush") \/ RejectedAt("notify:success")
PastHandler == pc \in {"finally", "done"}

\* C13: every notification of a run is pushed exactly when validate() has
\* loaded the credentials into PUSHOVER_USER_KEY and PUSHOVER_TOKEN by then
\* (the token is stored last), and is written to the mail log otherwise.
C13_PushIffCredentials ==
    \A i \in DOMAIN calls :
        calls[i].op \in NotifySites =>
            /\ calls[i].mode = "push" => calls[i].token # "None"
            /\ calls[i].mode = "log" => PUSHOVER_TOKEN = "None"

\* C14 as stated: a push rejected during the flush-failure or the success
\* notification reaches the caller without passing through the top-level
\* handler (nothing is caught, no failure notification is sent), and a push
\* rejected during the failure notification is what the handler handles.
C14_RejectedPushBypassesHandler ==
    /\ (RejectedInTry /\ PastHandler) => caught = <<>> /\ ~Issued("notify:failure")
    /\ (RejectedAt("notify:failure") /\ PastHandler) => caught = <<NotifyError>>

\* C14 amended: a push rejected during the flush-failure or the success
\* notification is raised inside the try block and is caught by the
\* top-level handler, which attempts one failure notification for it; a push
\* rejected during that failure notification is raised inside the handler and
\* goes straight to the caller in place of the caught error, the handler not
\* being entered a second time.
C14_RejectedPushInTryIsHandled ==
    /\ (RejectedInTry /\ pc = "except") => exc = NotifyError /\ caught = <<>>
    /\ (RejectedInTry /\ PastHandler) =>
          caught = <<NotifyError>> /\ Count("notify:failure") = 1
    /\ (RejectedAt("notify:failure") /\ PastHandler) =>
          /\ Len(caught) = 1 /\ Count("notify:failure") = 1
          /\ exc = NotifyError

C14_Witness ==
    /\ Ended /\ RejectedAt("notify:success") /\ ~RejectedAt("notify:failure")
    /\ caught = <<NotifyError>> /\ exc = NotifyError
    /\ Count("notify:failure") = 1

FailedIndex ==
    {i \in DOMAIN calls :
        /\ calls[i].phase = "main"
        /\ \/ calls[i].op \in {"lvcreate", "mount -o ro", "rsync", "umount", "lvremove",
                               "rmdir"} /\ calls[i].rc # 0
           \/ calls[i].op = "Stop" /\ calls[i].arg # "dead"
           \/ calls[i].op = "health" /\ calls[i].arg # "active/running"}

\* C15: once a main-sequence step has failed (stop verification, lvcreate,
\* mount, rsync, umount, lvremove, rmdir or health check) no further
\* main-sequence call is made in that run: what follows the failed call in
\* the log is the failure notification and then, at most, the cleanup start;
\* postqueue -f and the success notification are never issued.
C15_FailureShortCircuits ==
    \A f \in FailedIndex :
        /\ \A i \in DOMAIN calls : i > f => calls[i].phase # "main"
        /\ ~InMain
        /\ Len(calls) <= f + 2
        /\ Len(calls) >= f + 1 => calls[f + 1].op = "notify:failure"
        /\ Len(calls) = f + 2 => calls[f + 2].op = "Start" /\ calls[f + 2].phase = "finally"
        /\ ~Issued("postqueue -f") /\ ~Issued("notify:success") /\ ~Issued("notify:flush")
        /\ Ended => exc # None /\ Len(calls) = f + 2

C15_Witness ==
    /\ Ended /\ FailedStep = "umount"
    /\ calls[Len(calls) - 1].op = "notify:failure"
    /\ calls[Len(calls)].op = "Start"
    /\ ~Issued("lvremove")

\* C16: a run in which main() bound the service handle ends, on success
\* and on every failure path, with the start command of the cleanup: it is
\* the last call of the run, it comes after every failure notification
\* attempt (also a rejected one) and no stop command follows it.
C16_CleanupStartIsLast ==
    (Ended /\ cyrus) =>
        /\ calls # <<>>
        /\ calls[Len(calls)].op = "Start" /\ calls[Len(calls)].phase = "finally"
        /\ \A i \in DOMAIN calls :
              /\ calls[i].op = "notify:failure" => i < Len(calls)
              /\ calls[i].op = "Stop" => i < Len(calls) /\ calls[i].phase = "main"

C16_Witness ==
    /\ Ended /\ cyrus /\ RejectedAt("notify:failure")
    /\ FailedStep = "lvcreate"
    /\ calls[Len(calls)].op = "Start" /\ calls[Len(calls)].phase = "finally"

StartBetween(i, k) == \E j \in (i + 1)..k : calls[j].op = "Start"

\* C17 as stated: every call issued after a stop command and before the
\* next start command is the snapshot creation.
C17_OnlyLvcreateWhileStopped ==
    \A i, k \in DOMAIN calls :
        (i < k /\ calls[i].op = "Stop" /\ ~StartBetween(i, k)) => calls[k].op = "lvcreate"

\* C17 amended: between a stop command and the next start command the run
\* issues lvcreate and nothing else of the main sequence; mount and rsync are
\* never issued before a start has followed the stop; the one other call that
\* can fall in between is the failure notification, when the stop
\* verification or lvcreate failed and the next start is the cleanup's.
C17_OnlySnapshotWhileStopped ==
    \A i, k \in DOMAIN calls :
        (i < k /\ calls[i].op = "Stop" /\ ~StartBetween(i, k)) =>
            \/ calls[k].op = "lvcreate" /\ k = i + 1
            \/ /\ calls[k].op = "notify:failure"
               /\ FailedStep \in {"Stop", "lvcreate"}
               /\ k = Len(calls) \/ (k + 1 = Len(calls) /\ calls[k + 1].op = "Start")

C17_Witness ==
    /\ IssuedIn("rsync", "main")
    /\ \E i \in DOMAIN calls :
          /\ calls[i].op = "Stop" /\ calls[i + 1].op = "lvcreate"
          /\ calls[i + 2].op = "Start" /\ calls[i + 3].op = "mount -o ro"

LeftoverSteps == {"mount -o ro", "rsync", "umount"}

\* C18: a run that fails in mount, rsync or umount of the main sequence
\* issues no lvremove and no rmdir and ends with the snapshot volume and the
\* mount-point directory in place; the run that follows it finds both; without
\* --force that run makes no main-sequence call and sends the mail service no
\* command, and ends in failure; with --force it raises no conflict error and
\* reaches the main sequence with the mount point unmounted and the snapshot
\* removed.
C18_LeftoversAfterFailure ==
    /\ (Ended /\ FailedStep \in LeftoverSteps) =>
          /\ bkup_lv_full_name \in volumes /\ dirExists
          /\ ~IssuedIn("lvremove", "main") /\ ~Issued("rmdir")
          /\ FailedStep \in {"rsync", "umount"} => mounts > 0
    /\ prev \in LeftoverSteps =>
          /\ bkup_lv_full_name \in pre.volumes /\ pre.dirExists
          /\ ~force =>
                /\ ~ServiceCommanded /\ MainCalls = <<>> /\ ~InMain /\ ~cyrus
                /\ Ended => exc # None
          /\ force =>
                /\ Raised => FirstError \notin {MountPointExists, BackupPresent}
                /\ pc \in {"unit", "stop"} =>
                      mounts = 0 /\ bkup_lv_full_name \notin volumes /\ dirExists

C18_Witness ==
    /\ run = 2 /\ prev = "rsync" /\ force
    /\ pre.mounts > 0 /\ bkup_lv_full_name \in pre.volumes
    /\ pc = "lvcreate" /\ Issued("Stop")

C18_WitnessNoForce ==
    /\ run = 2 /\ prev = "umount" /\ ~force
    /\ Ended /\ caught = <<MountPointExists>>

\* C19: without --force, validate() issues neither umount nor lvremove,
\* and as long as the run has made no main-sequence call (validation under
\* way, passed or failed) the logical volumes and the mounts on the mount
\* point are those the run found.
C19_ValidateLeavesHostAlone ==
    (run > 0 /\ ~force) =>
        /\ ~IssuedIn("umount", "validate") /\ ~IssuedIn("lvremove", "validate")
        /\ pc \notin {"mounted", "v_umount", "mounted2", "v_lvremove"}
        /\ MainCalls = <<>> => volumes = pre.volumes /\ mounts = pre.mounts

C19_Witness ==
    /\ run > 0 /\ ~force /\ pc = "unit"
    /\ ~pre.dirExists /\ dirExists
    /\ volumes = pre.volumes /\ mounts = pre.mounts
    /\ OtherVolume \in volumes

====
